---------------------------- MODULE Spec2Model ----------------------------
(***************************************************************************)
(* A model of sqltools: the connection-string resolver                     *)
(* (executers._get_connection_string), run_command, and the TempTable      *)
(* lifecycle (helpers.TempTable.__init__ / close).                         *)
(*                                                                         *)
(* Optional values (Python's Optional[str]) are sequences of length 0 or   *)
(* 1: None is <<>>, the string s is <<s>>.  A connection string is kept as *)
(* the sequence of the adjacent string literals the source concatenates,   *)
(* one element per source line ("UID=" \o username \o ";" and so on).       *)
(***************************************************************************)
EXTENDS Integers, Sequences, FiniteSets, TLC

VARIABLES
    platform,   \* sys.platform of the running process
    environ,    \* os.environ restricted to SQLUSERNAME and SQLPASSWORD
    conns,      \* every connection pyodbc.connect has returned, by number
    tables,     \* the global temporary tables of the database engines
    log,        \* the statements executed, in order, with their connection
    handles,    \* the TempTable objects whose construction was attempted
    raised,     \* the exception the last operation raised, or NoError
    last,       \* the last call of _get_connection_string: arguments, result
    prev,       \* the call before it, when it had the same arguments
    extracted,  \* the last command given to the name extraction, its result
    returned,   \* what the last operation returned, when it was a query
    converted   \* the last call of to_sql_list: arguments, result

vars == <<platform, environ, conns, tables, log, handles, raised, last, prev,
          extracted, returned, converted>>

worldVars == <<conns, tables, log, handles, raised>>

-----------------------------------------------------------------------------
(* Values *)

None == <<>>
Some(s) == <<s>>

NoError == "NoError"
NoCall == [called |-> FALSE]
\* No query result: the last operation was not a query, or the query reached
\* no engine.
NoRows == [query |-> "", target |-> <<>>, rows |-> {}]
NoConversion == [done |-> FALSE]

Range(s) == {s[i] : i \in 1..Len(s)}

\* str.format of an Optional[str] inside an f-string: None renders as "None".
Fmt(opt) == IF opt = None THEN "None" ELSE opt[1]

\* The defaults of run_query / run_command / TempTable / show_temp.
DefaultDatabase == "QuantDB"
DefaultServer == "DC1Q2PSQLGE1V"
DefaultDsn == "MYMSSQL"

\* The inputs the model draws from.
Databases == {DefaultDatabase, "OtherDB"}
Servers == {DefaultServer, "SRV2"}
Dsns == {DefaultDsn, "DSN2"}
Usernames == {None, Some("FRB\\pcosta")}
Passwords == {None, Some("secret")}
Platforms == {"darwin", "linux", "win32", "lin", "freebsd"}
EnvNames == {"SQLUSERNAME", "SQLPASSWORD"}
\* The environments a process starts in, and the values it may set later.
EnvValues == [SQLUSERNAME : {None, Some("envuser")},
              SQLPASSWORD : {None, Some("envpass")}]
EnvSettings == [SQLUSERNAME |-> {None, Some("envuser"), Some("envuser2")},
                SQLPASSWORD |-> {None, Some("envpass")}]
\* The credentials a TempTable is constructed with: both omitted or both given.
Credentials == {<<None, None>>, <<Some("FRB\\pcosta"), Some("secret")>>}

-----------------------------------------------------------------------------
(* executers._get_connection_string *)

Ok(v) == [status |-> "ok", value |-> v]
Raise(exc, arg) == [status |-> exc, value |-> <<arg>>]

\* A variant of EnvLookup: os.environ.get(name, ""), an empty default
\* instead of the KeyError.
EnvLookupDefaulting(name) ==
    IF environ[name] = None THEN Ok(Some("")) ELSE Ok(environ[name])

\* os.environ[name]: the value, or KeyError(name).
EnvLookup(name) ==
    IF environ[name] = None THEN Raise("KeyError", name) ELSE Ok(environ[name])

\* A variant of connection_strings: the "win32" entry carries UID and PWD
\* like the "lin" entry.
ConnectionStringsWithCredentials(database, server, username, password, dsn) ==
    [win32 |-> <<"Driver={ODBC Driver 13 for SQL Server};",
                 "Server=" \o server \o ";",
                 "UID=" \o Fmt(username) \o ";",
                 "PWD=" \o Fmt(password) \o ";",
                 "Database=" \o database \o ";",
                 "Trusted_Connection=yes;">>,
     lin |-> <<"Driver={ODBC Driver 13 for SQL Server};",
               "Server=" \o server \o ";",
               "UID=" \o Fmt(username) \o ";",
               "PWD=" \o Fmt(password) \o ";",
               "Database=" \o database \o ";",
               "Trusted_Connection=yes;">>,
     darwin |-> <<"DSN=" \o dsn \o ";",
                  "UID=" \o Fmt(username) \o ";",
                  "PWD=" \o Fmt(password) \o ";",
                  "Database=" \o database \o ";">>]

\* The dictionary literal of lines 54-69, for already resolved credentials.
connection_strings(database, server, username, password, dsn) ==
    [win32 |-> <<"Driver={ODBC Driver 13 for SQL Server};",
                 "Server=" \o server \o ";",
                 "Database=" \o database \o ";",
                 "Trusted_Connection=yes;">>,
     lin |-> <<"Driver={ODBC Driver 13 for SQL Server};",
               "Server=" \o server \o ";",
               "UID=" \o Fmt(username) \o ";",
               "PWD=" \o Fmt(password) \o ";",
               "Database=" \o database \o ";",
               "Trusted_Connection=yes;">>,
     darwin |-> <<"DSN=" \o dsn \o ";",
                  "UID=" \o Fmt(username) \o ";",
                  "PWD=" \o Fmt(password) \o ";",
                  "Database=" \o database \o ";">>]

\* Lines 49-70.  The lookups happen in source order: SQLUSERNAME, then
\* SQLPASSWORD, then the dictionary subscript connection_strings[platform].
_get_connection_string(database, server, username, password, dsn, plat) ==
    LET posix == plat = "darwin" \/ plat = "linux"
        u == IF posix /\ username = None
             THEN EnvLookup("SQLUSERNAME") ELSE Ok(username)
        p == IF posix /\ password = None
             THEN EnvLookup("SQLPASSWORD") ELSE Ok(password)
        d == connection_strings(database, server, u.value, p.value, dsn)
    IN  IF u.status # "ok" THEN u
        ELSE IF p.status # "ok" THEN p
        ELSE IF plat \in DOMAIN d THEN Ok(d[plat])
        ELSE Raise("KeyError", plat)

Args(database, server, username, password, dsn, plat) ==
    [database |-> database, server |-> server, username |-> username,
     password |-> password, dsn |-> dsn, platform |-> plat]

\* One call of _get_connection_string, recorded with its arguments, the
\* environment it ran in and what it returned or raised.
CallRecord(a) ==
    [called |-> TRUE, args |-> a, environ |-> environ,
     result |-> _get_connection_string(a.database, a.server, a.username,
                                       a.password, a.dsn, a.platform)]

\* A variant of CallGetConnectionString: the call stores a given username in
\* os.environ.
CallGetConnectionStringCachingCredentials(database, server, username, password, dsn, plat) ==
    LET a == Args(database, server, username, password, dsn, plat)
    IN  /\ last' = CallRecord(a)
        /\ prev' = IF last.called /\ last.args = a THEN last ELSE NoCall
        /\ environ' = IF username # None
                      THEN [environ EXCEPT !["SQLUSERNAME"] = username]
                      ELSE environ
        /\ UNCHANGED <<platform, extracted, returned, converted>>
        /\ UNCHANGED worldVars

\* A call of _get_connection_string with any platform argument.
CallGetConnectionString(database, server, username, password, dsn, plat) ==
    LET a == Args(database, server, username, password, dsn, plat)
    IN  /\ last' = CallRecord(a)
        /\ prev' = IF last.called /\ last.args = a THEN last ELSE NoCall
        /\ UNCHANGED <<platform, environ, extracted, returned, converted>>
        /\ UNCHANGED worldVars

\* The calling process sets or unsets one of the two variables (os.environ is
\* process state that the library only reads).
SetEnv(name, value) ==
    /\ environ[name] # value
    /\ environ' = [environ EXCEPT ![name] = value]
    /\ UNCHANGED <<platform, extracted, last, prev, returned, converted>>
    /\ UNCHANGED worldVars

-----------------------------------------------------------------------------
(* The table name: helpers.TempTable.__init__, lines 79-81.  A command is a *)
(* sequence of characters.                                                  *)

MaxTokens == 4

\* \s of the re module.
Whitespace == {" ", "\t", "\n", "\r", "\f"}

\* \w of the re module (ASCII part).
WordChars ==
    {"a", "b", "c", "d", "e", "f", "g", "h", "i", "j", "k", "l", "m", "n",
     "o", "p", "q", "r", "s", "t", "u", "v", "w", "x", "y", "z",
     "A", "B", "C", "D", "E", "F", "G", "H", "I", "J", "K", "L", "M", "N",
     "O", "P", "Q", "R", "S", "T", "U", "V", "W", "X", "Y", "Z",
     "0", "1", "2", "3", "4", "5", "6", "7", "8", "9", "_"}

\* re.IGNORECASE on the four letters of the pattern.
Lower(c) ==
    CASE c = "I" -> "i" [] c = "N" -> "n" [] c = "T" -> "t" [] c = "O" -> "o"
      [] OTHER -> c

RECURSIVE Join(_)
\* "".join(chars)
Join(chars) ==
    IF chars = <<>> THEN "" ELSE chars[1] \o Join(Tail(chars))

RECURSIVE WordEnd(_, _)
\* \w+ is greedy: the index of the last character of the run of word
\* characters that starts at i.
WordEnd(s, i) ==
    IF i < Len(s) /\ s[i + 1] \in WordChars THEN WordEnd(s, i + 1) ELSE i

\* The pattern INTO\s##\w+ at position i of s: the index of the match's last
\* character, or 0 when the pattern does not match there.
MatchAt(s, i) ==
    IF /\ i + 7 <= Len(s)
       /\ <<Lower(s[i]), Lower(s[i + 1]), Lower(s[i + 2]), Lower(s[i + 3])>>
             = <<"i", "n", "t", "o">>
       /\ s[i + 4] \in Whitespace
       /\ s[i + 5] = "#" /\ s[i + 6] = "#"
       /\ s[i + 7] \in WordChars
    THEN WordEnd(s, i + 7)
    ELSE 0

RECURSIVE FindAllFrom(_, _)
\* re.findall: the non-overlapping matches, left to right.
FindAllFrom(s, i) ==
    IF i > Len(s) THEN <<>>
    ELSE IF MatchAt(s, i) > 0
         THEN <<SubSeq(s, i, MatchAt(s, i))>> \o FindAllFrom(s, MatchAt(s, i) + 1)
         ELSE FindAllFrom(s, i + 1)

re_findall(command) == FindAllFrom(command, 1)

RECURSIVE SplitFrom(_, _, _, _)
\* str.split(sep) for a one-character separator: the pieces between the
\* separators, empty pieces included.
SplitFrom(s, sep, i, piece) ==
    IF i > Len(s) THEN <<piece>>
    ELSE IF s[i] = sep THEN <<piece>> \o SplitFrom(s, sep, i + 1, <<>>)
    ELSE SplitFrom(s, sep, i + 1, Append(piece, s[i]))

split(s, sep) == SplitFrom(s, sep, 1, <<>>)

\* A variant of Subscript: an empty value instead of the IndexError.
SubscriptOrEmpty(list, k) ==
    IF k + 1 <= Len(list) THEN Ok(list[k + 1]) ELSE Ok(<<>>)

\* Subscripting a list: list[k] with k counted from 0.
Subscript(list, k) ==
    IF k + 1 <= Len(list) THEN Ok(list[k + 1])
    ELSE Raise("IndexError", "list index out of range")

\* re.findall(r"INTO\s##\w+", command, re.IGNORECASE)[0].split(" ")[1]
temp_table_name(command) ==
    LET first == Subscript(re_findall(command), 0)
        second == Subscript(split(first.value, " "), 1)
    IN  IF first.status # "ok" THEN first
        ELSE IF second.status # "ok" THEN second
        ELSE Ok(Join(second.value))

\* The pieces commands are built from.
RECURSIVE Cat(_)
Cat(pieces) ==
    IF pieces = <<>> THEN <<>> ELSE pieces[1] \o Cat(Tail(pieces))

SELECT_1_test == <<"S", "E", "L", "E", "C", "T", " ", "1", " ", "t", "e", "s", "t", " ">>
INTO_upper == <<"I", "N", "T", "O">>
INTO_lower == <<"i", "n", "t", "o">>
INTO_mixed == <<"I", "n", "t", "o">>
Space == <<" ">>
Newline == <<"\n">>
Tab == <<"\t">>
Hashes == <<"#", "#">>
Hash == <<"#">>
one == <<"o", "n", "e">>
two == <<"t", "w", "o">>
Semicolon == <<";">>
INTO_one == Cat(<<INTO_upper, Space, Hashes, one>>)
into_two == Cat(<<INTO_lower, Space, Hashes, two>>)
INTO_newline_one == Cat(<<INTO_upper, Newline, Hashes, one>>)

ExtractTokens ==
    {INTO_upper, INTO_mixed, Space, Tab, Hashes, Hash, one, Semicolon,
     INTO_one, into_two, INTO_newline_one}

RECURSIVE TokenSeqs(_)
TokenSeqs(n) ==
    IF n = 0 THEN {<<>>}
    ELSE LET shorter == TokenSeqs(n - 1)
         IN  shorter \cup {q \o t : q \in shorter, t \in ExtractTokens}

ExtractCommands == TokenSeqs(MaxTokens)

\* Lines 79-81 applied to one command.
ExtractName ==
    /\ ~extracted.done
    /\ extracted' = [done |-> TRUE, command |-> extracted.command,
                     result |-> temp_table_name(extracted.command)]
    /\ UNCHANGED <<platform, environ, last, prev, returned, converted>>
    /\ UNCHANGED worldVars

-----------------------------------------------------------------------------
(* Initial states and the resolver's specification *)

NoExtraction == [done |-> FALSE, command |-> <<>>]

InitWorld ==
    /\ conns = <<>>
    /\ tables = {}
    /\ log = <<>>
    /\ handles = <<>>
    /\ raised = NoError
    /\ last = NoCall
    /\ prev = NoCall
    /\ extracted = NoExtraction
    /\ returned = NoRows
    /\ converted = NoConversion

InitResolve ==
    /\ platform = "win32"
    /\ environ \in EnvValues
    /\ InitWorld

NextResolve ==
    \/ \E database \in Databases, server \in Servers, username \in Usernames,
          password \in Passwords, dsn \in Dsns, plat \in Platforms :
          CallGetConnectionString(database, server, username, password, dsn, plat)
    \/ \E name \in EnvNames :
          \E value \in EnvSettings[name] :
             SetEnv(name, value)

SpecResolve == InitResolve /\ [][NextResolve]_vars

-----------------------------------------------------------------------------
(* The database engines, as the statements of this library use them.  A     *)
(* global temporary table (##name) lives in tempdb of the engine the        *)
(* connection reaches, is visible to every session of that engine, and is   *)
(* destroyed when the session that created it ends.                         *)

MaxHandles == 2

\* The engine a connection string reaches: the one its DSN names, or the one
\* its Server names.
EndpointElements ==
    {"DSN=" \o d \o ";" : d \in Dsns} \cup {"Server=" \o sv \o ";" : sv \in Servers}

Endpoint(descriptor) == CHOOSE e \in Range(descriptor) : e \in EndpointElements

World == [conns |-> conns, tables |-> tables, log |-> log]

\* A variant of Connect: a pool that hands out the connection already made
\* for the same connection string.
ConnectReusingConnection(w, descriptor, caller, role) ==
    IF \E c \in 1..Len(w.conns) : w.conns[c].descriptor = descriptor
    THEN w
    ELSE [w EXCEPT !.conns = Append(@, [descriptor |-> descriptor, state |-> "open",
                                        caller |-> caller, role |-> role])]

\* pyodbc.connect(connection_string, autocommit=True): a new connection.
\* caller is the handle under construction, role the place that holds the
\* connection: "run_command" (the local conn of run_command) or "self.conn".
Connect(w, descriptor, caller, role) ==
    [w EXCEPT !.conns = Append(@, [descriptor |-> descriptor, state |-> "open",
                                   caller |-> caller, role |-> role])]

\* The connection a pyodbc.connect with this descriptor has just returned.
Connected(w, descriptor) ==
    CHOOSE c \in 1..Len(w.conns) :
        /\ w.conns[c].descriptor = descriptor
        /\ \A d \in 1..Len(w.conns) : w.conns[d].descriptor = descriptor => d <= c

\* The statement of lines 83-85.
DropStatement(temp_table_name_) ==
    [kind |-> "drop", name |-> temp_table_name_,
     text |-> "IF OBJECT_ID('tempdb.." \o temp_table_name_
              \o "','U') IS NOT NULL DROP TABLE " \o temp_table_name_ \o ";"]

\* The creation command of line 95.  It is executed only when a name was
\* extracted from it, and the engine creates the table of that name.
CommandStatement(command, temp_table_name_) ==
    [kind |-> "command", name |-> temp_table_name_, text |-> Join(command)]

TableExists(w, endpoint, name) ==
    \E t \in w.tables : t.endpoint = endpoint /\ t.name = name

\* crsr.execute(statement) on connection c: the statement is logged; a drop
\* removes the table of that name if the engine has one; a creation command
\* fails when the engine already has a table of that name.
Execute(w, c, statement) ==
    LET endpoint == Endpoint(w.conns[c].descriptor)
        logged == [w EXCEPT !.log = Append(@, [conn |-> c, statement |-> statement])]
    IN  IF statement.kind = "drop"
        THEN [w |-> [logged EXCEPT !.tables =
                        {t \in @ : ~(t.endpoint = endpoint /\ t.name = statement.name)}],
              raised |-> NoError]
        ELSE IF TableExists(w, endpoint, statement.name)
        THEN [w |-> logged, raised |-> "pyodbc.ProgrammingError"]
        ELSE [w |-> [logged EXCEPT !.tables =
                        @ \cup {[endpoint |-> endpoint, name |-> statement.name,
                                 session |-> c, text |-> statement.text]}],
              raised |-> NoError]

\* A variant of CloseConnection: the tables of a session outlive it.
CloseConnectionKeepingTables(w, c) ==
    [w EXCEPT !.conns[c].state = "closed"]

\* A connection is closed (conn.close(), or the deallocation of the last
\* reference to it): its session ends and the tables it created are gone.
CloseConnection(w, c) ==
    [w EXCEPT !.conns[c].state = "closed",
              !.tables = {t \in @ : t.session # c}]

-----------------------------------------------------------------------------
(* executers.run_command, lines 183-188.  Its platform is the default of    *)
(* _get_connection_string, sys.platform.  The with block of pyodbc commits  *)
(* and does not close; conn is the only reference to the connection, so it  *)
(* is closed when the call returns or raises and the reference is dropped.  *)

run_command(w, caller, statement, database, server, username, password, dsn) ==
    LET connection_string ==
            _get_connection_string(database, server, username, password, dsn, platform)
        opened == Connect(w, connection_string.value, caller, "run_command")
        conn == Connected(opened, connection_string.value)
        executed == Execute(opened, conn, statement)
    IN  IF connection_string.status # "ok"
        THEN [w |-> w, raised |-> connection_string.status]
        ELSE [w |-> CloseConnection(executed.w, conn), raised |-> executed.raised]

-----------------------------------------------------------------------------
(* helpers.TempTable *)

\* A variant of PreDropTarget: the constructor hands its own target on to
\* run_command.
PreDropTargetOfConstructor(database, server, username, password, dsn) ==
    [database |-> database, server |-> server, username |-> username,
     password |-> password, dsn |-> dsn]

\* The arguments run_command gets from the call of lines 83-85: the statement
\* alone, so every other parameter takes its default, whatever the constructor
\* was given.
PreDropTarget(database, server, username, password, dsn) ==
    [database |-> DefaultDatabase, server |-> DefaultServer, username |-> None,
     password |-> None, dsn |-> DefaultDsn]

\* A variant of PreDrop: no conditional drop is sent.
PreDropSkipped(w, self, name, database, server, username, password, dsn) ==
    [w |-> w, raised |-> NoError]

\* Lines 82-85.
PreDrop(w, self, name, database, server, username, password, dsn) ==
    LET t == PreDropTarget(database, server, username, password, dsn)
    IN  run_command(w, self, DropStatement(name), t.database, t.server,
                    t.username, t.password, t.dsn)

\* Lines 86-96: the connection the handle keeps, and the creation command.
CreateOnOwnConnection(w, self, command, name, connection_string) ==
    LET opened == Connect(w, connection_string, self, "self.conn")
        conn == Connected(opened, connection_string)
        executed == Execute(opened, conn, CommandStatement(command, name))
    IN  [w |-> executed.w, raised |-> executed.raised, conn |-> conn]

\* TempTable.__init__, lines 78-96, as the outcome of one construction:
\* the world after it, the exception it raised and the new object's state.
\*   "no object"  the constructor raised before self.conn was assigned
\*   "failed"     it raised after: the object holds an open connection
\*   "held"       it returned
\* The object also records the command's text, the extracted name and whether the
\* engine its own arguments name had a table of that name when it began.
Construction(command, database, server, username, password, dsn) ==
    LET self == Len(handles) + 1
        name == temp_table_name(command)
        dropped == PreDrop(World, self, name.value, database, server,
                           username, password, dsn)
        connection_string ==
            _get_connection_string(database, server, username, password, dsn, platform)
        created == CreateOnOwnConnection(dropped.w, self, command, name.value,
                                         connection_string.value)
        nothing == [state |-> "no object", command |-> Join(command), name |-> "",
                    conn |-> 0, taken |-> FALSE]
    IN  IF name.status # "ok"
        THEN [w |-> World, raised |-> name.status, handle |-> nothing]
        ELSE IF dropped.raised # NoError
        THEN [w |-> dropped.w, raised |-> dropped.raised,
              handle |-> [nothing EXCEPT !.name = name.value]]
        ELSE IF connection_string.status # "ok"
        THEN [w |-> dropped.w, raised |-> connection_string.status,
              handle |-> [nothing EXCEPT !.name = name.value]]
        ELSE [w |-> created.w, raised |-> created.raised,
              handle |-> [state |-> IF created.raised = NoError
                                    THEN "held" ELSE "failed",
                          command |-> Join(command),
                          name |-> name.value,
                          conn |-> created.conn,
                          taken |-> TableExists(World,
                                       Endpoint(connection_string.value),
                                       name.value)]]

TempTable__init__(command, database, server, username, password, dsn) ==
    /\ Len(handles) < MaxHandles
    /\ LET r == Construction(command, database, server, username, password, dsn)
       IN  /\ conns' = r.w.conns
           /\ tables' = r.w.tables
           /\ log' = r.w.log
           /\ raised' = r.raised
           /\ handles' = Append(handles, r.handle)
    /\ returned' = NoRows
    /\ UNCHANGED <<platform, environ, last, prev, extracted, converted>>

\* TempTable.close, lines 98-100.  Closing a closed pyodbc connection raises
\* ProgrammingError.
close(self) ==
    /\ self \in 1..Len(handles)
    /\ handles[self].state \in {"held", "closed"}
    /\ IF conns[handles[self].conn].state = "open"
       THEN LET w == CloseConnection(World, handles[self].conn)
            IN  /\ conns' = w.conns
                /\ tables' = w.tables
                /\ handles' = [handles EXCEPT ![self].state = "closed"]
                /\ raised' = NoError
       ELSE /\ raised' = "pyodbc.ProgrammingError"
            /\ UNCHANGED <<conns, tables, handles>>
    /\ returned' = NoRows
    /\ UNCHANGED <<log, platform, environ, last, prev, extracted, converted>>

\* The object of a construction that raised after self.conn was assigned has
\* no name in the caller; when Python deallocates it, its connection closes.
Deallocate(self) ==
    /\ self \in 1..Len(handles)
    /\ handles[self].state = "failed"
    /\ LET w == CloseConnection(World, handles[self].conn)
       IN  /\ conns' = w.conns
           /\ tables' = w.tables
    /\ handles' = [handles EXCEPT ![self].state = "deallocated"]
    /\ UNCHANGED <<log, raised, platform, environ, last, prev, extracted,
                   returned, converted>>

\* The commands the lifecycle is run with: the one of tests/test_helpers.py,
\* one for a second table, and one with no marker.
Commands ==
    {Cat(<<SELECT_1_test, INTO_one, Semicolon>>),
     Cat(<<SELECT_1_test, into_two, Semicolon>>),
     SELECT_1_test}

SysPlatforms == {"darwin", "linux", "win32"}

\* The process starts with both variables set or with neither (one alone
\* fails like none: see the resolver's specification).
StartEnvs == {e \in EnvValues : (e.SQLUSERNAME = None) <=> (e.SQLPASSWORD = None)}

Init ==
    /\ platform \in SysPlatforms
    /\ environ \in StartEnvs
    /\ InitWorld

Next ==
    \/ \E command \in Commands, database \in Databases, server \in Servers,
          credentials \in Credentials, dsn \in Dsns :
          TempTable__init__(command, database, server, credentials[1],
                            credentials[2], dsn)
    \/ \E self \in 1..MaxHandles : close(self)
    \/ \E self \in 1..MaxHandles : Deallocate(self)

Spec == Init /\ [][Next]_vars

-----------------------------------------------------------------------------
(* executers.run_query, lines 127-131, and helpers.show_temp, lines 136-152: *)
(* what a caller sees of the tables, on a connection of its own that is     *)
(* closed when the call returns, like the one of run_command.  conns and    *)
(* log keep the connections that executed statements and those statements:  *)
(* a query changes no table, and its connection, the last one opened, is    *)
(* struck from conns once it is closed.                                     *)

\* The query of show_temp, lines 136-144.
ShowTempQuery ==
    [kind |-> "show_temp", name |-> "",
     text |-> "SELECT name FROM tempdb.sys.objects WHERE name LIKE '##%';"]

\* The query of tests/test_helpers.py, lines 17-24, for the table of a name.
SelectAllFrom(name) ==
    [kind |-> "select", name |-> name, text |-> "SELECT * FROM " \o name \o ";"]

\* pd.read_sql(query, conn): show_temp's query returns
\* the names of the global temporary tables of the engine; a SELECT * returns
\* the rows of the table, which are those its creation command produced (the
\* command's text stands for them), and fails when the engine has no table
\* of that name.
read_sql(w, c, query) ==
    LET endpoint == Endpoint(w.conns[c].descriptor)
        visible == {t \in w.tables : t.endpoint = endpoint}
    IN  IF query.kind = "show_temp"
        THEN [w |-> w, raised |-> NoError, rows |-> {t.name : t \in visible}]
        ELSE IF TableExists(w, endpoint, query.name)
        THEN [w |-> w, raised |-> NoError,
              rows |-> {t.text : t \in {u \in visible : u.name = query.name}}]
        ELSE [w |-> w, raised |-> "pandas.io.sql.DatabaseError", rows |-> {}]

\* The closed connection of a query, the last of conns, is struck from it.
Struck(w) == [w EXCEPT !.conns = SubSeq(@, 1, Len(@) - 1)]

run_query(w, query, database, server, username, password, dsn) ==
    LET connection_string ==
            _get_connection_string(database, server, username, password, dsn, platform)
        opened == Connect(w, connection_string.value, 0, "run_query")
        conn == Connected(opened, connection_string.value)
        read == read_sql(opened, conn, query)
    IN  IF connection_string.status # "ok"
        THEN [w |-> w, raised |-> connection_string.status, rows |-> {},
              target |-> <<>>]
        ELSE [w |-> Struck(CloseConnection(read.w, conn)), raised |-> read.raised,
              rows |-> read.rows, target |-> connection_string.value]

\* show_temp, lines 145-152: its own target is handed on to run_query.
show_temp(w, database, server, username, password, dsn) ==
    run_query(w, ShowTempQuery, database, server, username, password, dsn)

\* A call of run_query: the world after it, what it raised and, when the
\* query reached an engine, the query, its target and the rows it returned.
Returns(r, query) ==
    /\ conns' = r.w.conns
    /\ tables' = r.w.tables
    /\ log' = r.w.log
    /\ raised' = r.raised
    /\ returned' = IF r.target # <<>>
                   THEN [query |-> query.text, target |-> r.target, rows |-> r.rows]
                   ELSE NoRows
    /\ UNCHANGED <<handles, platform, environ, last, prev, extracted, converted>>

CallShowTemp(database, server, username, password, dsn) ==
    Returns(show_temp(World, database, server, username, password, dsn),
            ShowTempQuery)

CallRunQuery(name, database, server, username, password, dsn) ==
    Returns(run_query(World, SelectAllFrom(name), database, server, username,
                      password, dsn),
            SelectAllFrom(name))

\* The commands that create a table, and the names they create.
CreatingCommands == {c \in Commands : temp_table_name(c).status = "ok"}

TableNames == {temp_table_name(c).value : c \in CreatingCommands}

NextObserve ==
    \/ \E command \in CreatingCommands, server \in Servers, dsn \in Dsns :
          TempTable__init__(command, DefaultDatabase, server, None, None, dsn)
    \/ \E self \in 1..MaxHandles : close(self)
    \/ \E self \in 1..MaxHandles : Deallocate(self)
    \/ \E server \in Servers, dsn \in Dsns :
          CallShowTemp(DefaultDatabase, server, None, None, dsn)
    \/ \E name \in TableNames, server \in Servers, dsn \in Dsns :
          CallRunQuery(name, DefaultDatabase, server, None, None, dsn)

SpecObserve == Init /\ [][NextObserve]_vars

InitExtract ==
    /\ platform = "win32"
    /\ environ = [SQLUSERNAME |-> None, SQLPASSWORD |-> None]
    /\ conns = <<>>
    /\ tables = {}
    /\ log = <<>>
    /\ handles = <<>>
    /\ raised = NoError
    /\ last = NoCall
    /\ prev = NoCall
    /\ extracted \in {[done |-> FALSE, command |-> c] : c \in ExtractCommands}
    /\ returned = NoRows
    /\ converted = NoConversion

NextExtract == ExtractName

SpecExtract == InitExtract /\ [][NextExtract]_vars

-----------------------------------------------------------------------------
(* helpers.to_sql_list, lines 505-523.  A Python value is a record of its   *)
(* type and its value: a str holds its characters, an int its integer, a    *)
(* float the number of tenths it is worth (1.5 is 15 tenths), a list its    *)
(* items; the fields a type does not use are empty.                         *)

MaxItems == 2

Str(chars) == [type |-> "str", chars |-> chars, number |-> 0, items |-> <<>>]
Int_(n) == [type |-> "int", chars |-> <<>>, number |-> n, items |-> <<>>]
Float(tenths) == [type |-> "float", chars |-> <<>>, number |-> tenths, items |-> <<>>]
List(items) == [type |-> "list", chars |-> <<>>, number |-> 0, items |-> items]

isinstance(object, type) == object.type = type

DigitChars == <<"0", "1", "2", "3", "4", "5", "6", "7", "8", "9">>

RECURSIVE Digits(_)
\* The decimal digits of a natural number.
Digits(n) ==
    IF n < 10 THEN <<DigitChars[n + 1]>>
    ELSE Digits(n \div 10) \o <<DigitChars[(n % 10) + 1]>>

Abs(n) == IF n < 0 THEN -n ELSE n

Sign(n) == IF n < 0 THEN <<"-">> ELSE <<>>

\* The characters of f"{item}": a str as it is, an int in decimal, a float
\* as its shortest repr, which for a number of tenths is digits "." digit.
FormatItem(item) ==
    IF isinstance(item, "str") THEN item.chars
    ELSE IF isinstance(item, "int")
    THEN Sign(item.number) \o Digits(Abs(item.number))
    ELSE Sign(item.number) \o Digits(Abs(item.number) \div 10) \o <<".">>
         \o Digits(Abs(item.number) % 10)

RECURSIVE lstrip(_, _)
lstrip(s, chars) ==
    IF s # <<>> /\ s[1] \in chars THEN lstrip(Tail(s), chars) ELSE s

RECURSIVE rstrip(_, _)
rstrip(s, chars) ==
    IF s # <<>> /\ s[Len(s)] \in chars
    THEN rstrip(SubSeq(s, 1, Len(s) - 1), chars)
    ELSE s

\* str.strip(chars): every leading and every trailing character that is in
\* chars is removed.
strip(s, chars) == rstrip(lstrip(s, chars), chars)

RECURSIVE Accumulate(_, _, _)
\* The loop of lines 519-520, from sql_list on over the items left.
Accumulate(sql_list, items, quote) ==
    IF items = <<>> THEN sql_list
    ELSE Accumulate(sql_list \o quote \o FormatItem(items[1]) \o quote
                       \o <<",", " ">>,
                    Tail(items), quote)

\* to_sql_list(python_list, force_string), lines 505-523; the result as text.
to_sql_list(python_list, force_string) ==
    LET list == IF \/ isinstance(python_list, "str")
                   \/ isinstance(python_list, "int")
                   \/ isinstance(python_list, "float")
                THEN <<python_list>>
                ELSE python_list.items
        quote == IF isinstance(list[1], "str") \/ force_string
                 THEN <<"'">> ELSE <<>>
        looped == Accumulate(<<"(">>, list, quote)
        stripped == strip(looped, {",", " "})
    IN  Join(stripped \o <<")">>)

\* The items the conversion is run with: strings (plain, with an inner
\* blank, ending in a blank, ending in a comma, empty), ints and floats.
ListItems ==
    {Str(<<"a">>), Str(<<"b", " ", "c">>), Str(<<"a", " ">>), Str(<<"x", ",">>),
     Str(<<>>), Int_(1), Int_(-12), Float(15), Float(20)}

RECURSIVE ItemSeqs(_)
\* The non-empty lists of at most n items.
ItemSeqs(n) ==
    IF n = 1 THEN {<<i>> : i \in ListItems}
    ELSE LET shorter == ItemSeqs(n - 1)
         IN  shorter \cup {q \o <<i>> : q \in shorter, i \in ListItems}

\* The arguments: a single scalar, or a non-empty list.
PythonLists == ListItems \cup {List(q) : q \in ItemSeqs(MaxItems)}

ToSqlList ==
    /\ ~converted.done
    /\ converted' = [converted EXCEPT
                        !.done = TRUE,
                        !.result = to_sql_list(converted.python_list,
                                               converted.force_string)]
    /\ UNCHANGED <<platform, environ, last, prev, extracted, returned>>
    /\ UNCHANGED worldVars

InitList ==
    /\ platform = "win32"
    /\ environ = [SQLUSERNAME |-> None, SQLPASSWORD |-> None]
    /\ conns = <<>>
    /\ tables = {}
    /\ log = <<>>
    /\ handles = <<>>
    /\ raised = NoError
    /\ last = NoCall
    /\ prev = NoCall
    /\ extracted = NoExtraction
    /\ returned = NoRows
    /\ converted \in {[done |-> FALSE, python_list |-> l, force_string |-> f,
                       result |-> ""] : l \in PythonLists, f \in BOOLEAN}

NextList == ToSqlList

SpecList == InitList /\ [][NextList]_vars

-----------------------------------------------------------------------------
(* Claims about _get_connection_string, checked under SpecResolve *)

PosixPlatforms == {"darwin", "linux"}
ExpectedPlatforms == {"darwin", "win32", "linux"}

Uid(opt) == "UID=" \o Fmt(opt) \o ";"
Pwd(opt) == "PWD=" \o Fmt(opt) \o ";"

\* Every UID= / PWD= element a call of the model can put in a descriptor.
CredentialElements ==
    {Uid(u) : u \in Usernames \cup EnvSettings.SQLUSERNAME} \cup
    {Pwd(p) : p \in Passwords \cup EnvSettings.SQLPASSWORD}

\* The call's credentials can be resolved: given, or set in the environment
\* the call ran in.
Resolvable(c) ==
    /\ c.args.username # None \/ c.environ.SQLUSERNAME # None
    /\ c.args.password # None \/ c.environ.SQLPASSWORD # None

\* C1: on "darwin" and on "linux", a call with username and password omitted
\* while SQLUSERNAME and SQLPASSWORD are set returns a descriptor whose UID
\* and PWD are those two environment values.
C1_EnvCredentialsEmbedded ==
    (/\ last.called
     /\ last.args.platform \in PosixPlatforms
     /\ last.args.username = None /\ last.args.password = None
     /\ last.environ.SQLUSERNAME # None /\ last.environ.SQLPASSWORD # None)
    => /\ last.result.status = "ok"
       /\ Uid(last.environ.SQLUSERNAME) \in Range(last.result.value)
       /\ Pwd(last.environ.SQLPASSWORD) \in Range(last.result.value)

\* C2: on "darwin" and on "linux", a call with a credential omitted whose
\* environment variable is unset raises KeyError for that variable and
\* returns no descriptor.
C2_MissingCredentialFails ==
    (/\ last.called
     /\ last.args.platform \in PosixPlatforms
     /\ \/ last.args.username = None /\ last.environ.SQLUSERNAME = None
        \/ last.args.password = None /\ last.environ.SQLPASSWORD = None)
    => /\ last.result.status = "KeyError"
       /\ last.result.value \in {<<"SQLUSERNAME">>, <<"SQLPASSWORD">>}

C2_Witness ==
    /\ last.called
    /\ last.args.platform = "darwin"
    /\ last.args.username # None
    /\ last.args.password = None /\ last.environ.SQLPASSWORD = None
    /\ last.result = Raise("KeyError", "SQLPASSWORD")

\* C3: on "win32" every call succeeds with a trusted-connection descriptor
\* that holds no UID and no PWD, and the descriptor is the one any other
\* choice of username and password, under any environment, gives.
C3_WindowsIgnoresCredentials ==
    (last.called /\ last.args.platform = "win32")
    => /\ last.result.status = "ok"
       /\ "Trusted_Connection=yes;" \in Range(last.result.value)
       /\ Range(last.result.value) \cap CredentialElements = {}
       /\ \A u \in Usernames, p \in Passwords :
             _get_connection_string(last.args.database, last.args.server,
                                    u, p, last.args.dsn, "win32")
             = last.result

C3_Witness ==
    /\ last.called /\ last.args.platform = "win32"
    /\ last.args.username # None /\ last.args.password # None
    /\ last.environ.SQLUSERNAME # None
    /\ environ.SQLUSERNAME = None
    /\ last.result.status = "ok"

\* C4: a call returns a descriptor for exactly the platform values "darwin",
\* "win32" and "linux" (given resolvable credentials) and raises for every
\* other platform value.
C4_ThreeWayDispatch ==
    last.called =>
       /\ (last.args.platform \in ExpectedPlatforms /\ Resolvable(last))
             => last.result.status = "ok"
       /\ last.args.platform \notin ExpectedPlatforms
             => last.result.status = "KeyError"

-----------------------------------------------------------------------------
(* Claims about the table name, checked under SpecExtract *)

\* The positions of a command where the marker stands: INTO in any letter
\* case, one whitespace character, then a ##identifier.
MarkerPositions(command) == {i \in 1..Len(command) : MatchAt(command, i) > 0}

FirstMarker(command) ==
    CHOOSE i \in MarkerPositions(command) :
        \A j \in MarkerPositions(command) : i <= j

\* The ##identifier of the marker at position i.
MarkerIdentifier(command, i) == Join(SubSeq(command, i + 5, MatchAt(command, i)))

\* C7: for every command that contains the marker, with any whitespace
\* character between INTO and the ##identifier, the extracted name is the
\* ##identifier of the first marker and the extraction does not fail.
C7_FirstMarkerExtracted ==
    (extracted.done /\ MarkerPositions(extracted.command) # {})
    => extracted.result =
          Ok(MarkerIdentifier(extracted.command, FirstMarker(extracted.command)))

-----------------------------------------------------------------------------
(* Claims about TempTable, checked under Spec *)

Constructed == {h \in 1..Len(handles) : handles[h].state \in {"held", "closed"}}

\* The constructions that reached line 93: self.conn was assigned.
Connecting == {h \in 1..Len(handles) : handles[h].conn # 0}

\* The statements executed on connection c, in order.
StatementsOn(c) == SelectSeq(log, LAMBDA e : e.conn = c)

\* The connections opened during the construction of handle h.
OpenedFor(h) == {c \in 1..Len(conns) : conns[c].caller = h}

NewHandles == {h \in 1..Len(handles') : h > Len(handles)}

\* The texts of the commands that hold no INTO ##name marker.
UnmarkedCommands == {Join(c) : c \in {d \in Commands : MarkerPositions(d) = {}}}

\* C6: a construction whose command holds no INTO ##name marker raises
\* (IndexError) and leaves no object, and that step opens no connection,
\* executes no statement and creates or drops no table.
C6_NoMarkerNoEffect ==
    [][ \A h \in NewHandles :
           handles'[h].command \in UnmarkedCommands
           => /\ raised' = "IndexError"
              /\ handles'[h].state = "no object"
              /\ UNCHANGED <<conns, tables, log>> ]_vars

C6_Witness ==
    \E h \in 1..Len(handles) :
       /\ handles[h].command \in UnmarkedCommands
       /\ handles[h].state = "no object"
       /\ raised = "IndexError"
       /\ h > 1 /\ handles[1].state = "held" /\ tables # {}

\* C8: for every connection target given to the constructor, a construction
\* whose extracted name is taken by a table of that target succeeds.
C8_ExistingTableDropped ==
    \A h \in 1..Len(handles) :
       handles[h].taken => handles[h].state \in {"held", "closed"}

\* C9 as stated: the conditional drop and the creation command are, in that
\* order, the first two statements on the connection the handle holds.
C9_DropAndCreateOnHeldConnection ==
    \A h \in Constructed :
       LET stmts == StatementsOn(handles[h].conn)
       IN  /\ Len(stmts) = 2
           /\ stmts[1].statement = DropStatement(handles[h].name)
           /\ stmts[2].statement.kind = "command"

\* C9 as amended: the conditional drop is executed first, as the only
\* statement of a separate connection that run_command opens, and the
\* creation command directly after it, as the first and only statement on
\* the connection the handle holds.
C9_DropOnSeparateConnectionThenCreate ==
    \A h \in Connecting :
       \E i \in 1..Len(log) :
          /\ i + 1 <= Len(log)
          /\ log[i].statement = DropStatement(handles[h].name)
          /\ log[i].conn \in OpenedFor(h)
          /\ conns[log[i].conn].role = "run_command"
          /\ log[i].conn # handles[h].conn
          /\ StatementsOn(log[i].conn) = <<log[i]>>
          /\ log[i + 1].conn = handles[h].conn
          /\ log[i + 1].statement.kind = "command"
          /\ log[i + 1].statement.text = handles[h].command
          /\ StatementsOn(handles[h].conn) = <<log[i + 1]>>

C9_Witness ==
    /\ Len(handles) = 2
    /\ handles[1].state = "closed"
    /\ handles[2].state = "held"
    /\ handles[1].name = handles[2].name
    /\ Len(log) = 4

\* C10 as stated: the connection a handle holds is the only connection opened
\* on its behalf, and no two handles hold the same connection.
C10_OneConnectionOpenedPerHandle ==
    /\ \A h \in Constructed : OpenedFor(h) = {handles[h].conn}
    /\ \A g, h \in Connecting : g # h => handles[g].conn # handles[h].conn

\* C10 as amended: a constructed handle holds one connection, opened by its
\* own construction as self.conn, and no two handles hold the same
\* connection; its construction opens exactly one more connection, the one
\* of run_command for the conditional drop, which no handle holds.
C10_OneConnectionHeldPerHandle ==
    /\ \A h \in Constructed :
          /\ handles[h].conn \in OpenedFor(h)
          /\ conns[handles[h].conn].role = "self.conn"
          /\ Cardinality(OpenedFor(h)) = 2
          /\ \A c \in OpenedFor(h) \ {handles[h].conn} :
                /\ conns[c].role = "run_command"
                /\ \A g \in Connecting : handles[g].conn # c
    /\ \A g, h \in Connecting : g # h => handles[g].conn # handles[h].conn
    /\ \A c \in 1..Len(conns) :
          conns[c].role = "self.conn" => handles[conns[c].caller].conn = c

C10_Witness ==
    /\ Len(handles) = 2
    /\ handles[1].state = "closed"
    /\ handles[2].state = "held"
    /\ conns[handles[1].conn].descriptor = conns[handles[2].conn].descriptor
    /\ conns[handles[1].conn].state = "closed"
    /\ conns[handles[2].conn].state = "open"

\* C14: every statement a construction sends, the conditional drop and the
\* creation command, is executed on a connection whose descriptor is the one
\* built from the constructor's own database, server, username, password and
\* dsn, which is the descriptor of the connection the handle holds.
C14_StatementsSentToConstructorTarget ==
    \A h \in Connecting :
       \A i \in 1..Len(log) :
          log[i].conn \in OpenedFor(h) =>
             conns[log[i].conn].descriptor = conns[handles[h].conn].descriptor

\* The constructions whose creation command failed at the engine, the object
\* not yet deallocated.
FailedAtEngine == {h \in 1..Len(handles) : handles[h].state = "failed"}

\* The tables that the session of handle h created.
TablesOf(h) == {t \in tables : t.session = handles[h].conn}

\* What C13 says of a failed creation apart from the reach of close: the
\* connection of the handle is open and the session has created no table.
C13_FailedCreationLeavesConnectionOpen ==
    \A h \in FailedAtEngine :
       /\ conns[handles[h].conn].state = "open"
       /\ TablesOf(h) = {}

\* C13: after a creation command failed at the engine during construction,
\* the connection of the handle is open, the session has created no table,
\* and the caller can call close() on the handle.
C13_CloseReachableAfterFailedCreation ==
    /\ C13_FailedCreationLeavesConnectionOpen
    /\ \A h \in FailedAtEngine : ENABLED close(h)

\* The items of an argument of to_sql_list: those of the list, or the scalar
\* as the one item.
ItemsOf(python_list) ==
    IF isinstance(python_list, "list") THEN python_list.items ELSE <<python_list>>

RECURSIVE Separated(_, _)
\* The items in order, each rendered unchanged between the quotes, with
\* ", " between one item and the next.
Separated(items, quote) ==
    IF items = <<>> THEN <<>>
    ELSE quote \o FormatItem(items[1]) \o quote
         \o (IF Len(items) > 1 THEN <<",", " ">> ELSE <<>>)
         \o Separated(Tail(items), quote)

\* C15: to_sql_list returns "(", the items in order, each rendered unchanged
\* and wrapped in single quotes exactly when the first item is a string or
\* force_string is true, separated by ", ", and ")": no character of an item
\* is lost or altered.
C15_EveryItemRenderedUnchanged ==
    converted.done =>
       LET items == ItemsOf(converted.python_list)
           quote == IF items[1].type = "str" \/ converted.force_string
                    THEN <<"'">> ELSE <<>>
       IN  converted.result = Join(<<"(">> \o Separated(items, quote) \o <<")">>)

\* The handles constructed and not closed.
Held == {h \in 1..Len(handles) : handles[h].state = "held"}

\* The engine that the connection of handle h reaches.
EngineOf(h) == Endpoint(conns[handles[h].conn].descriptor)

\* The engine that the defaults of run_command reach.
DefaultEngine ==
    Endpoint(_get_connection_string(DefaultDatabase, DefaultServer, None, None,
                                    DefaultDsn, platform).value)

\* The last operation was a query on the engine of handle h.
ObservedAt(h) == returned # NoRows /\ Endpoint(returned.target) = EngineOf(h)

\* What the query shows of the table of handle h: show_temp lists its name,
\* a SELECT * of its name returns the rows its creation command produced.
VisibleIn(h) ==
    /\ returned.query = ShowTempQuery.text => handles[h].name \in returned.rows
    /\ returned.query = SelectAllFrom(handles[h].name).text =>
          /\ raised = NoError
          /\ returned.rows = {handles[h].command}

\* The table of handle h is on its engine, and a query on an independent
\* connection to that engine shows it.
Present(h) ==
    /\ \E t \in TablesOf(h) :
          /\ t.name = handles[h].name
          /\ t.endpoint = EngineOf(h)
          /\ t.text = handles[h].command
    /\ ObservedAt(h) => VisibleIn(h)

\* A later construction extracted the name of handle h, and the table of h is
\* on the engine where every construction runs its conditional drop.
Replaced(h) ==
    /\ EngineOf(h) = DefaultEngine
    /\ \E g \in 1..Len(handles) : g > h /\ handles[g].name = handles[h].name

\* C11 as stated: every handle constructed and not closed has its table
\* present, visible to a query or a show_temp on an independent connection
\* to its engine, with the rows its creation command produced.
C11_HeldTablePresent == \A h \in Held : Present(h)

\* C11 as amended: every handle constructed and not closed has its table
\* present and visible, with the rows its creation command produced, unless a
\* later construction extracted the same name and the handle's table is on
\* the default engine; then the conditional drop of that construction has
\* removed it and the open handle has no table.
C11_HeldTablePresentUnlessReplaced ==
    \A h \in Held : IF Replaced(h) THEN TablesOf(h) = {} ELSE Present(h)

C11_Witness ==
    /\ Len(handles) = 2
    /\ Held = {1, 2}
    /\ handles[1].name = handles[2].name
    /\ EngineOf(1) # EngineOf(2)
    /\ returned.query = SelectAllFrom(handles[1].name).text
    /\ ObservedAt(1)
    /\ returned.rows = {handles[1].command}

\* The handles constructed and closed.
Closed == {h \in 1..Len(handles) : handles[h].state = "closed"}

\* A close() of an open handle: no statement is executed, the connection of
\* the handle is the one connection that changes, it is closed, and the
\* tables that go are those of its session, all of them.
CloseOnlyClosesConnection(h) ==
    /\ log' = log
    /\ conns' = [conns EXCEPT ![handles[h].conn].state = "closed"]
    /\ tables' = {t \in tables : t.session # handles[h].conn}
    /\ raised' = NoError

\* No handle constructed after h has created a table of the name of h.
NoLaterCreation(h) ==
    \A g \in Constructed : g > h => handles[g].name # handles[h].name

\* The last operation was a show_temp, on the engine of handle h.
ShowTempAt(h) == ObservedAt(h) /\ returned.query = ShowTempQuery.text

=============================================================================
